---- MODULE Spec2Model ----
(***************************************************************************)
(* HTMLBuilder: a line-oriented template is compiled into element trees    *)
(* that are appended to a container.  The module models the classes of     *)
(* src/src/HTMLBuilder.ts and src/src/HTMLBuilder.js:                      *)
(*   "ts"  - src/src/HTMLBuilder.ts                                        *)
(*   "js1" - the first class of HTMLBuilder.js (lines 2-152)               *)
(*   "js2" - the second class of HTMLBuilder.js (lines 159-484)            *)
(*   "ev"  - the event-aware class of HTMLBuilder.js (lines 501-854)       *)
(* Strings are sequences of one-character strings; indices returned by the *)
(* program's functions keep their 0-based JavaScript values.               *)
(***************************************************************************)
EXTENDS Integers, Sequences, FiniteSets, TLC

(***************************************************************************)
(* Characters and JavaScript string primitives                             *)
(***************************************************************************)
Digits == {"0", "1", "2", "3", "4", "5", "6", "7", "8", "9"}

Letters ==
  {"a", "b", "c", "d", "e", "f", "g", "h", "i", "j", "k", "l", "m",
   "n", "o", "p", "q", "r", "s", "t", "u", "v", "w", "x", "y", "z",
   "A", "B", "C", "D", "E", "F", "G", "H", "I", "J", "K", "L", "M",
   "N", "O", "P", "Q", "R", "S", "T", "U", "V", "W", "X", "Y", "Z"}

\* \w of the regular expressions
WordChars == Letters \cup Digits \cup {"_"}

\* the characters String.prototype.trim removes
WhiteSpace == {" ", "\t", "\n", "\r", "\f"}

\* the JavaScript value null (an element handle is a non-empty tuple)
Null == <<>>

\* a regular-expression group that did not take part in the match
Undefined == <<"undefined">>

\* s[i] for a 0-based index i
At(s, i) == s[i + 1]

\* s.substring(from, to) with 0-based from (inclusive) and to (exclusive)
Sub(s, from, to) == SubSeq(s, from + 1, to)

\* number of leading characters of s that lie in set cs, starting at 0-based p
RECURSIVE RunLen(_, _, _)
RunLen(s, p, cs) ==
  IF p < Len(s) /\ At(s, p) \in cs THEN 1 + RunLen(s, p + 1, cs) ELSE 0

\* number of trailing characters of s that lie in set cs
RECURSIVE TailLen(_, _)
TailLen(s, cs) ==
  IF Len(s) > 0 /\ s[Len(s)] \in cs THEN 1 + TailLen(SubSeq(s, 1, Len(s) - 1), cs) ELSE 0

\* String.prototype.trim
Trim(s) ==
  LET a == RunLen(s, 0, WhiteSpace)
  IN  IF a = Len(s) THEN <<>> ELSE Sub(s, a, Len(s) - TailLen(s, WhiteSpace))

\* String.prototype.indexOf(c) from 0-based position p for a one-character c; -1 when absent
RECURSIVE IndexOfFrom(_, _, _)
IndexOfFrom(s, c, p) ==
  IF p >= Len(s) THEN -1
  ELSE IF At(s, p) = c THEN p
  ELSE IndexOfFrom(s, c, p + 1)

\* String.prototype.lastIndexOf(c) for a one-character c; -1 when absent
RECURSIVE LastIndexOf(_, _)
LastIndexOf(s, c) ==
  IF Len(s) = 0 THEN -1
  ELSE IF s[Len(s)] = c THEN Len(s) - 1
  ELSE LastIndexOf(SubSeq(s, 1, Len(s) - 1), c)

\* String.prototype.split(c) for a one-character separator c
RECURSIVE Split(_, _)
Split(s, c) ==
  LET p == IndexOfFrom(s, c, 0)
  IN  IF p = -1 THEN <<s>>
      ELSE <<Sub(s, 0, p)>> \o Split(Sub(s, p + 1, Len(s)), c)

\* String.prototype.startsWith
StartsWith(s, pre) == Len(s) >= Len(pre) /\ SubSeq(s, 1, Len(pre)) = pre

\* 0-based index of the first occurrence of pat in s at or after p; -1 when absent
RECURSIVE IndexOfStr(_, _, _)
IndexOfStr(s, pat, p) ==
  IF p + Len(pat) > Len(s) THEN -1
  ELSE IF Sub(s, p, p + Len(pat)) = pat THEN p
  ELSE IndexOfStr(s, pat, p + 1)

\* String.prototype.replace(pat, "") with a string pattern: the first occurrence only
ReplaceFirstWithEmpty(s, pat) ==
  LET p == IndexOfStr(s, pat, 0)
  IN  IF p = -1 THEN s ELSE Sub(s, 0, p) \o Sub(s, p + Len(pat), Len(s))

\* Array.prototype.filter((v) => v !== "")
RECURSIVE FilterNonEmpty(_)
FilterNonEmpty(s) ==
  IF s = <<>> THEN <<>>
  ELSE (IF Head(s) # <<>> THEN <<Head(s)>> ELSE <<>>) \o FilterNonEmpty(Tail(s))

\* Array.prototype.join("\n")
RECURSIVE JoinLines(_)
JoinLines(ls) ==
  IF ls = <<>> THEN <<>>
  ELSE IF Len(ls) = 1 THEN ls[1]
  ELSE ls[1] \o <<"\n">> \o JoinLines(Tail(ls))

\* /\d/.test(s[0]): s[0] of an empty string is undefined, and "undefined" has no digit
FirstIsDigit(s) == Len(s) > 0 /\ s[1] \in Digits

(***************************************************************************)
(* The regular expressions REGEX and RegExp.prototype.exec                 *)
(***************************************************************************)
\* [\w-] (and [\w\d-], the same set)
NameChars == WordChars \cup {"-"}

\* [\w;]
EventChars == WordChars \cup {";"}

\* 0-based index of the first \w of the line at or after p, where the leftmost match starts; -1 if none
RECURSIVE FirstWord(_, _)
FirstWord(s, p) ==
  IF p >= Len(s) THEN -1
  ELSE IF At(s, p) \in WordChars THEN p
  ELSE FirstWord(s, p + 1)

\* (?:\.[\w-]*){0,} from q: the index after the last class fragment
RECURSIVE ClassesEnd(_, _)
ClassesEnd(s, q) ==
  IF q < Len(s) /\ At(s, q) = "."
  THEN ClassesEnd(s, q + 1 + RunLen(s, q + 1, NameChars))
  ELSE q

\* (#\w{0,}){0,1} from q: an id without hyphens
IdEnd_wordOnly(s, q) ==
  IF q < Len(s) /\ At(s, q) = "#" THEN q + 1 + RunLen(s, q + 1, WordChars) ELSE q

\* (#[\w-]{0,}){0,1} from q: the index after the id
IdEndOnce(s, q) ==
  IF q < Len(s) /\ At(s, q) = "#" THEN q + 1 + RunLen(s, q + 1, NameChars) ELSE q

\* (#[\w\d-]{0,}){0,} from q: <<start of the last iteration, index after it>>
RECURSIVE IdEndMany(_, _, _)
IdEndMany(s, q, last) ==
  IF q < Len(s) /\ At(s, q) = "#"
  THEN IdEndMany(s, q + 1 + RunLen(s, q + 1, NameChars), q)
  ELSE <<last, q>>

\* (?:OPEN(.*)CLOSE){0,1} from q: the greedy .* runs to the last CLOSE of the line.
\* <<captured text or Undefined, index after the group>>
Bracketed(s, q, open, close) ==
  LET r == LastIndexOf(s, close)
  IN  IF q < Len(s) /\ At(s, q) = open /\ r > q
      THEN <<Sub(s, q + 1, r), r + 1>>
      ELSE <<Undefined, q>>

\* (?:\@([\w;]*)){0,} from q: the capture of the last iteration, Undefined if none
RECURSIVE EventsCapture(_, _, _)
EventsCapture(s, q, last) ==
  IF q < Len(s) /\ At(s, q) = "@"
  THEN LET n == RunLen(s, q + 1, EventChars)
       IN  EventsCapture(s, q + 1 + n, Sub(s, q + 1, q + 1 + n))
  ELSE last

NoMatch ==
  [m1 |-> Undefined, m2 |-> Undefined, m3 |-> Undefined,
   m4 |-> Undefined, m5 |-> Undefined, m6 |-> Undefined]

\* this.REGEX.exec(line) || [] of the event-aware classes ("js2", "ev"):
\* /(\w{1,})((?:\.[\w-]*){0,}){0,}(#[\w-]{0,}){0,1}(?:\((.*)\)){0,1}(?:\[(.*)\]){0,1}(?:\@([\w;]*)){0,}/
RegexExecEv(line) ==
  LET p == FirstWord(line, 0)
  IN  IF p = -1 THEN NoMatch
      ELSE
        LET e1 == p + RunLen(line, p, WordChars)
            e2 == ClassesEnd(line, e1)
            e3 == IdEndOnce(line, e2)
            c4 == Bracketed(line, e3, "(", ")")
            c5 == Bracketed(line, c4[2], "[", "]")
        IN  [m1 |-> Sub(line, p, e1),
             m2 |-> IF e2 > e1 THEN Sub(line, e1, e2) ELSE Undefined,
             m3 |-> IF e3 > e2 THEN Sub(line, e2, e3) ELSE Undefined,
             m4 |-> c4[1],
             m5 |-> c5[1],
             m6 |-> EventsCapture(line, c5[2], Undefined)]

\* this.REGEX.exec(line) || [] of the classes without events ("ts", "js1"):
\* /(\w{1,})((?:\.[\w\d-]*){0,}){0,}(#[\w\d-]{0,}){0,}(?:\((.*)\)){0,1}(?:\[(.*)\]){0,1}/mi
RegexExecTs(line) ==
  LET p == FirstWord(line, 0)
  IN  IF p = -1 THEN NoMatch
      ELSE
        LET e1 == p + RunLen(line, p, WordChars)
            e2 == ClassesEnd(line, e1)
            i3 == IdEndMany(line, e2, e2)
            c4 == Bracketed(line, i3[2], "(", ")")
            c5 == Bracketed(line, c4[2], "[", "]")
        IN  [m1 |-> Sub(line, p, e1),
             m2 |-> IF e2 > e1 THEN Sub(line, e1, e2) ELSE Undefined,
             m3 |-> IF i3[2] > e2 THEN Sub(line, i3[1], i3[2]) ELSE Undefined,
             m4 |-> c4[1],
             m5 |-> c5[1],
             m6 |-> Undefined]

\* JavaScript truthiness of a match group: neither undefined nor ""
Truthy(m) == m # Undefined /\ m # <<>>

(***************************************************************************)
(* The host document: elements, text nodes and the DOM calls the builder   *)
(* makes                                                                   *)
(***************************************************************************)
\* a child-list entry that is an element, named by its handle
ElNode(h) == [kind |-> "el", ref |-> h, data |-> <<>>]

\* a child-list entry that is a text node
TextNode(str) == [kind |-> "text", ref |-> <<>>, data |-> str]

\* document.createElement(tag), before anything is applied to it
NewElement(tag) ==
  [tag |-> tag, classes |-> <<>>, id |-> <<>>, attrs |-> <<>>,
   kids |-> <<>>, listeners |-> <<>>]

\* document.createElement throws InvalidCharacterError unless the name starts like an XML Name
ValidTagName(tag) == tag # <<>> /\ tag[1] \in Letters \cup {"_", ":"}

\* Element.setAttribute throws InvalidCharacterError unless the name is an XML Name
ValidAttributeName(n) ==
  /\ n # <<>>
  /\ n[1] \in Letters \cup {"_", ":"}
  /\ \A k \in 1..Len(n) : n[k] \in NameChars \cup {".", ":"}

\* element.classList.add(c): a token already present is not added again
ClassListAdd(el, c) ==
  IF \E k \in 1..Len(el.classes) : el.classes[k] = c THEN el
  ELSE [el EXCEPT !.classes = Append(@, c)]

\* element.setAttribute(n, v) for a valid name: replaces the value of an attribute already set
SetAttribute(el, n, v) ==
  IF \E k \in 1..Len(el.attrs) : el.attrs[k][1] = n
  THEN [el EXCEPT !.attrs = [k \in 1..Len(@) |-> IF @[k][1] = n THEN <<n, v>> ELSE @[k]]]
  ELSE [el EXCEPT !.attrs = Append(@, <<n, v>>)]

\* the character references the decoder of the host resolves in this model
Entities ==
  { <<<<"&", "a", "m", "p", ";">>, "&">>,
    <<<<"&", "l", "t", ";">>, "<">>,
    <<<<"&", "g", "t", ";">>, ">">> }

\* _decodeHTMLEntities: textarea.innerHTML = content; return textarea.value
RECURSIVE DecodeHTMLEntities(_)
DecodeHTMLEntities(content) ==
  IF content = <<>> THEN <<>>
  ELSE IF \E e \in Entities : StartsWith(content, e[1])
  THEN LET e == CHOOSE x \in Entities : StartsWith(content, x[1])
       IN  <<e[2]>> \o DecodeHTMLEntities(Sub(content, Len(e[1]), Len(content)))
  ELSE <<Head(content)>> \o DecodeHTMLEntities(Tail(content))

(***************************************************************************)
(* The event registry (classes "js2" and "ev")                             *)
(***************************************************************************)
\* JavaScript falsiness of a property that is absent (undefined) or the empty string
Falsy(v) == v = Undefined \/ v = <<>>

\* the string "on"
On == <<"o", "n">>

\* event.name.replace(/on/g, ""): every occurrence
RECURSIVE StripOn_all(_)
StripOn_all(name) ==
  IF IndexOfStr(name, On, 0) = -1 THEN name
  ELSE StripOn_all(ReplaceFirstWithEmpty(name, On))

\* event.name.replace("on", "")
StripOn(name) == ReplaceFirstWithEmpty(name, On)

\* bindEvent that strips the prefix before it checks the properties
bindEvent_renameFirst(o, objs, events) ==
  LET renamed == IF ~Falsy(objs[o].name) /\ StartsWith(objs[o].name, On)
                 THEN [objs EXCEPT ![o].name = StripOn(@)]
                 ELSE objs
  IN  IF Falsy(objs[o].name) \/ Falsy(objs[o].type) \/ Falsy(objs[o].callback)
      THEN [threw |-> "bindEvent(): cannot bind an event", objs |-> renamed, events |-> events]
      ELSE [threw |-> "", objs |-> renamed, events |-> Append(events, o)]

\* bindEvent(event): objs maps each Listener object to its properties, events is this.EVENTS
\* (a list of references to Listener objects), o is the object passed by the caller
bindEvent(o, objs, events) ==
  IF Falsy(objs[o].name)
  THEN [threw |-> "bindEvent(): cannot bind an event without a name.",
        objs |-> objs, events |-> events]
  ELSE IF Falsy(objs[o].type)
  THEN [threw |-> "bindEvent(): cannot bind an event without a precise type.",
        objs |-> objs, events |-> events]
  ELSE IF Falsy(objs[o].callback)
  THEN [threw |-> "bindEvent(): cannot bind an event without a callback function.",
        objs |-> objs, events |-> events]
  ELSE
    LET renamed == IF StartsWith(objs[o].name, On)
                   THEN [objs EXCEPT ![o].name = StripOn(@)]
                   ELSE objs
    IN  [threw |-> "", objs |-> renamed, events |-> Append(events, o)]

\* _searchForEvent(name): the first registered Listener of that name, 0 for null
RECURSIVE searchFrom(_, _, _, _)
searchFrom(name, objs, events, k) ==
  IF k > Len(events) THEN 0
  ELSE IF name = objs[events[k]].name THEN events[k]
  ELSE searchFrom(name, objs, events, k + 1)

\* _searchForEvent without the return inside the loop: the last Listener of that name
RECURSIVE searchLast(_, _, _)
searchLast(name, objs, events) ==
  IF events = <<>> THEN 0
  ELSE IF name = objs[events[Len(events)]].name THEN events[Len(events)]
  ELSE searchLast(name, objs, SubSeq(events, 1, Len(events) - 1))

_searchForEvent(name, objs, events) == searchFrom(name, objs, events, 1)

(***************************************************************************)
(* _createElementFromLine                                                  *)
(***************************************************************************)
\* the classes whose REGEX has the event group and whose parser splits matches[5]
EventAware(variant) == variant \in {"js2", "ev"}

\* for (var c of classes): a class starting with a digit is reported and skipped.
\* acc = [el, log, c]; c is the function-scoped loop variable, still set after the loop
RECURSIVE ApplyClasses(_, _)
ApplyClasses(classes, acc) ==
  IF classes = <<>> THEN acc
  ELSE LET c == Head(classes)
       IN  ApplyClasses(Tail(classes),
             IF FirstIsDigit(c)
             THEN [acc EXCEPT !.log = Append(@, <<"class", c>>), !.c = c]
             ELSE [acc EXCEPT !.el = ClassListAdd(@, c), !.c = c])

\* the body of for (var attr of attributes) after the digit test
SetOneAttribute(variant, el, attr0) ==
  LET attr  == IF EventAware(variant) THEN Trim(attr0) ELSE attr0
      parts == Split(attr, "=")
      name  == IF Len(parts) > 1 THEN parts[1] ELSE attr
      value == IF Len(parts) > 1 THEN parts[2] ELSE <<>>
  IN  IF ValidAttributeName(name)
      THEN [threw |-> "", el |-> SetAttribute(el, name, value)]
      ELSE [threw |-> "InvalidCharacterError", el |-> el]

\* for (var attr of attributes); acc = [el, log, c, threw]
RECURSIVE ApplyAttributes(_, _, _)
ApplyAttributes(variant, attributes, acc) ==
  IF attributes = <<>> \/ acc.threw # "" THEN acc
  ELSE LET attr == Head(attributes)
       IN  IF FirstIsDigit(attr)
           THEN ApplyAttributes(variant, Tail(attributes),
                  [acc EXCEPT !.log = Append(@, <<"attribute",
                                 IF variant = "ev" THEN attr ELSE acc.c>>)])
           ELSE LET r == SetOneAttribute(variant, acc.el, attr)
                IN  ApplyAttributes(variant, Tail(attributes),
                      [acc EXCEPT !.el = r.el, !.threw = r.threw])

\* for (var name of events): a name starting with a digit is reported and skipped,
\* a registered name adds a listener, any other name does nothing.  acc = [el, log]
RECURSIVE ApplyEvents(_, _, _, _)
ApplyEvents(names, objs, events, acc) ==
  IF names = <<>> THEN acc
  ELSE LET name == Head(names)
           ev   == _searchForEvent(name, objs, events)
       IN  ApplyEvents(Tail(names), objs, events,
             IF FirstIsDigit(name)
             THEN [acc EXCEPT !.log = Append(@, <<"event", name>>)]
             ELSE IF ev # 0
             THEN [acc EXCEPT !.el.listeners =
                     Append(@, [type |-> objs[ev].type, callback |-> objs[ev].callback,
                                options |-> objs[ev].options])]
             ELSE acc)

\* Array.prototype.filter(v => v.trim())
RECURSIVE FilterNonBlank(_)
FilterNonBlank(ss) ==
  IF ss = <<>> THEN <<>>
  ELSE (IF Trim(Head(ss)) # <<>> THEN <<Head(ss)>> ELSE <<>>) \o FilterNonBlank(Tail(ss))

\* return element
WithStatusOk(a) == [status |-> "ok", err |-> "", el |-> a.el, log |-> a.log]

\* the end of _createElementFromLine: the id, the text child and the listeners.
\* a = [el, log, c, threw] is the state after the loop over the attributes
AfterAttributes(variant, m, id, names, objs, events, a) ==
  IF a.threw # ""
  THEN [status |-> "throw", err |-> a.threw, el |-> NewElement(<<>>), log |-> a.log]
  ELSE WithStatusOk(
         ApplyEvents(names, objs, events,
           [el  |-> [a.el EXCEPT
                       !.id = id,
                       !.kids = IF Truthy(m.m4)
                                THEN Append(@, TextNode(IF EventAware(variant)
                                                        THEN DecodeHTMLEntities(m.m4)
                                                        ELSE m.m4))
                                ELSE @],
            log |-> a.log]))

\* the statements of _createElementFromLine after the match: m is matches.
\* status "ok": el is the element; "null": the function returned null; "throw": err was thrown.
\* log is what the call wrote with console.error.
CreateFromMatch(variant, line, sym, objs, events, m) ==
  LET classes == IF Truthy(m.m2) THEN FilterNonEmpty(Split(m.m2, ".")) ELSE Null
      id      == IF Truthy(m.m3) THEN ReplaceFirstWithEmpty(m.m3, <<"#">>) ELSE <<>>
      \* "ts"/"js1" split matches[2], which is undefined when the line has no class
      attrTypeError == ~EventAware(variant) /\ Truthy(m.m5) /\ m.m2 = Undefined
      attributes ==
        IF ~Truthy(m.m5) THEN Null
        ELSE IF EventAware(variant) THEN Split(m.m5, sym)
        ELSE FilterNonBlank(Split(m.m2, ","))
      names == IF Truthy(m.m6) THEN FilterNonEmpty(Split(m.m6, ";")) ELSE Null
      none  == NewElement(<<>>)
  IN  IF attrTypeError
      THEN [status |-> "throw", err |-> "TypeError", el |-> none, log |-> <<>>]
      ELSE IF ~Truthy(m.m1)
      THEN IF variant = "ev"
           THEN [status |-> "throw", err |-> "HTMLBuilder: unable to parse a line",
                 el |-> none, log |-> <<>>]
           ELSE [status |-> "null", err |-> "", el |-> none, log |-> << <<"line", line>> >>]
      ELSE IF ~ValidTagName(m.m1)
      THEN [status |-> "throw", err |-> "InvalidCharacterError", el |-> none, log |-> <<>>]
      ELSE AfterAttributes(variant, m, id, names, objs, events,
             ApplyAttributes(variant, attributes,
               ApplyClasses(classes,
                 [el |-> NewElement(m.m1), log |-> <<>>, c |-> Undefined, threw |-> ""])))

\* _createElementFromLine with matches[5].split(";"), the separator fixed
createElement_fixedSeparator(variant, line, sym, objs, events) ==
  CreateFromMatch(variant, line, ";", objs, events,
    IF EventAware(variant) THEN RegexExecEv(line) ELSE RegexExecTs(line))

\* _createElementFromLine(line) of class variant, with separator sym and registry (objs, events)
_createElementFromLine(variant, line, sym, objs, events) ==
  CreateFromMatch(variant, line, sym, objs, events,
    IF EventAware(variant) THEN RegexExecEv(line) ELSE RegexExecTs(line))

(***************************************************************************)
(* Indentation, segmentation and the assembler's index functions           *)
(***************************************************************************)
\* _level(line): the number of leading ">" characters
_level(line) == RunLen(line, 0, {">"})

\* lines[i] = lines[i].trim() for every line
RECURSIVE TrimEach(_)
TrimEach(ls) == IF ls = <<>> THEN <<>> ELSE <<Trim(Head(ls))>> \o TrimEach(Tail(ls))

\* _extractLinesFrom that drops the lines left empty by the trim
extractLines_skipBlank(template) == FilterNonEmpty(TrimEach(Split(Trim(template), "\n")))

\* _extractLinesFrom(template)
_extractLinesFrom(template) == TrimEach(Split(Trim(template), "\n"))

\* the classes that keep the index of each main line ([line, i])
IndexSegmented(variant) == variant \in {"js2", "ev"}

\* the first loop of generate: the depth-0 lines, with their 0-based index where the class keeps it
RECURSIVE MainLinesFrom(_, _, _)
MainLinesFrom(variant, lines, k) ==
  IF k >= Len(lines) THEN <<>>
  ELSE (IF _level(At(lines, k)) = 0
        THEN IF IndexSegmented(variant) THEN << <<At(lines, k), k>> >> ELSE << <<At(lines, k)>> >>
        ELSE <<>>) \o MainLinesFrom(variant, lines, k + 1)

\* the 0-based indices from k up to (excluding) the first line equal to mainLine
RECURSIVE UntilSameText(_, _, _)
UntilSameText(lines, mainLine, k) ==
  IF k >= Len(lines) \/ At(lines, k) = mainLine THEN <<>>
  ELSE <<k>> \o UntilSameText(lines, mainLine, k + 1)

\* var nextMainLevel = mainLines[i + 1] ? mainLines[i + 1][1] : lines.length
nextMainLevel(lines, mainLines, i) ==
  IF i + 1 < Len(mainLines) THEN At(mainLines, i + 1)[2] ELSE Len(lines)

\* the inner for loop that starts at i + 1 and stops at a line equal to the main line
ChildLineIndices_byText(variant, lines, mainLines, i) ==
  UntilSameText(lines, At(mainLines, i)[1], i + 1)

\* the 0-based indices of the lines read as children of the i-th main line (the inner for loop)
ChildLineIndices(variant, lines, mainLines, i) ==
  IF IndexSegmented(variant)
  THEN LET mainLevel == At(mainLines, i)[2]
           next      == nextMainLevel(lines, mainLines, i)
       IN  [n \in 1..(next - mainLevel - 1) |-> mainLevel + n]
  ELSE UntilSameText(lines, At(mainLines, i)[1], i + 1)

\* _maxLevel(children): children is a non-empty list of <<element, level>>
RECURSIVE MaxFrom(_, _, _)
MaxFrom(children, k, max) ==
  IF k > Len(children) THEN max
  ELSE MaxFrom(children, k + 1, IF children[k][2] > max THEN children[k][2] ELSE max)

_maxLevel(children) == MaxFrom(children, 1, children[1][2])

\* the loop of _getIndexOfDeepestElement and of _getIndexOfNearestParentElementOf:
\* the last 0-based index below bound whose level is wanted, start if there is none
RECURSIVE LastIndexAtLevel(_, _, _, _, _)
LastIndexAtLevel(children, wanted, i, bound, lastIndex) ==
  IF i >= bound THEN lastIndex
  ELSE LastIndexAtLevel(children, wanted, i + 1, bound,
         IF At(children, i)[2] = wanted THEN i ELSE lastIndex)

\* _getIndexOfDeepestElement that takes the first child when all are at level 1
DeepestElement_firstAtLevel1(variant, children) ==
  LET max == _maxLevel(children)
  IN  IF max = 1 THEN 0 ELSE LastIndexAtLevel(children, max, 0, Len(children), 1)

\* _getIndexOfDeepestElement(children), 0-based
_getIndexOfDeepestElement(variant, children) ==
  LET max == _maxLevel(children)
  IN  IF max = 1
      THEN IF variant = "js1" THEN 0 ELSE Len(children) - 1
      ELSE LastIndexAtLevel(children, max, 0, Len(children), 1)

\* the value null of an index
NullIndex == -1

\* the first 0-based index below bound whose level is wanted, NullIndex if there is none
RECURSIVE FirstIndexAtLevel(_, _, _, _)
FirstIndexAtLevel(children, wanted, i, bound) ==
  IF i >= bound THEN NullIndex
  ELSE IF At(children, i)[2] = wanted THEN i
  ELSE FirstIndexAtLevel(children, wanted, i + 1, bound)

\* _getIndexOfNearestParentElementOf with a break at the first match
NearestParent_firstMatch(indexOfDeepest, children) ==
  FirstIndexAtLevel(children, At(children, indexOfDeepest)[2] - 1, 0, indexOfDeepest)

\* _getIndexOfNearestParentElementOf(indexOfDeepest, children), 0-based, NullIndex for null
_getIndexOfNearestParentElementOf(indexOfDeepest, children) ==
  LastIndexAtLevel(children, At(children, indexOfDeepest)[2] - 1, 0, indexOfDeepest, NullIndex)

\* the test of the conditional that chooses between the nearest parent and the main element
HasNearestParent(variant, indexOfNearestParent) ==
  IF variant = "js1"
  THEN indexOfNearestParent # NullIndex /\ indexOfNearestParent # 0
  ELSE indexOfNearestParent # NullIndex

\* childrenElements.splice(0, 1): the first entry is removed
Splice1_first(children, index) == Tail(children)

\* childrenElements.slice(index, 1): the list itself is left as it was
Splice1_slice(children, index) == children

\* childrenElements.splice(index, 1)
Splice1(children, index) ==
  [k \in 1..(Len(children) - 1) |-> IF k <= index THEN children[k] ELSE children[k + 1]]

(***************************************************************************)
(* The builder, the document and the activation of generate                *)
(***************************************************************************)
VARIABLES
  variant,            \* which HTMLBuilder class the builder is an instance of
  parent,             \* this.parent
  SYMBOL_BETWEEN_ATTRIBUTES,
  EVENTS,             \* this.EVENTS: references to Listener objects, in registration order
  objs,               \* the Listener objects of the caller: reference -> properties
  elems,              \* the elements created so far: handle -> element
  src,                \* handle -> 0-based index in lines of the line the element was made from
  dom,                \* container -> the handles of its children, in order
  console,            \* what console.error has written
  pc,                 \* "idle", or the position inside generate: "group", "loop"
  template,           \* the argument of the current (or last) call of generate
  lines,              \* var lines
  mainLines,          \* var mainLines
  i,                  \* var i of the loop over mainLines
  childrenElements,   \* var childrenElements: <<handle or Null, level>>
  mainElement,        \* var mainElement: handle or Null
  iter,               \* iterations of the while loop done for the current group
  calls,              \* number of calls of generate so far
  binds,              \* number of calls of bindEvent so far
  outcome             \* the last call that ended: [op, arg, threw]

vars ==
  <<variant, parent, SYMBOL_BETWEEN_ATTRIBUTES, EVENTS, objs, elems, src, dom, console, pc,
    template, lines, mainLines, i, childrenElements, mainElement, iter, calls, binds, outcome>>

builderVars == <<variant, parent, SYMBOL_BETWEEN_ATTRIBUTES, EVENTS, objs>>

frameVars == <<template, lines, mainLines, i, childrenElements, mainElement, iter>>

\* the containers the caller owns; the constructor's default is document.body
Containers == {"body", "aside"}

\* the state after new HTMLBuilder() of class v; pool are the caller's Listener objects
InitFor(v, pool) ==
  /\ variant = v
  /\ parent = "body"
  /\ SYMBOL_BETWEEN_ATTRIBUTES = ";"
  /\ EVENTS = <<>>
  /\ objs = pool
  /\ elems = <<>>
  /\ src = <<>>
  /\ dom = [c \in Containers |-> <<>>]
  /\ console = <<>>
  /\ pc = "idle"
  /\ template = <<>>
  /\ lines = <<>>
  /\ mainLines = <<>>
  /\ i = 0
  /\ childrenElements = <<>>
  /\ mainElement = Null
  /\ iter = 0
  /\ calls = 0
  /\ binds = 0
  /\ outcome = [op |-> "new", arg |-> 0, threw |-> ""]

\* the classes whose generate returns at once on a blank template
ChecksBlankTemplate(v) == v \in {"js2", "ev"}

\* generate(t), up to the loop over mainLines: the caller passes a template of tset
GenerateCall(tset, maxCalls) ==
  /\ pc = "idle"
  /\ calls < maxCalls
  /\ \E t \in tset :
       /\ template' = t
       /\ calls' = calls + 1
       /\ i' = 0
       /\ childrenElements' = <<>>
       /\ mainElement' = Null
       /\ iter' = 0
       /\ IF ChecksBlankTemplate(variant) /\ Len(Trim(t)) = 0
          THEN /\ pc' = "idle"
               /\ lines' = <<>>
               /\ mainLines' = <<>>
               /\ outcome' = [op |-> "generate", arg |-> calls + 1, threw |-> ""]
          ELSE /\ pc' = "group"
               /\ lines' = _extractLinesFrom(t)
               /\ mainLines' = MainLinesFrom(variant, _extractLinesFrom(t), 0)
               /\ UNCHANGED outcome
  /\ UNCHANGED <<builderVars, elems, src, dom, console, binds>>

\* _createElementFromLine for each text of texts in turn, stopping at the first throw.
\* acc = [status, err, res, log]: res holds the results of the calls that returned
RECURSIVE CreateAll(_, _, _, _, _, _)
\* the result r of one call is added to acc
CreateNext(v, texts, sym, os, evs, acc, r) ==
  CreateAll(v, Tail(texts), sym, os, evs,
    [status |-> IF r.status = "throw" THEN "throw" ELSE "ok",
     err    |-> r.err,
     res    |-> IF r.status = "throw" THEN acc.res ELSE Append(acc.res, r),
     log    |-> acc.log \o r.log])

CreateAll(v, texts, sym, os, evs, acc) ==
  IF texts = <<>> \/ acc.status = "throw" THEN acc
  ELSE CreateNext(v, texts, sym, os, evs, acc,
         _createElementFromLine(v, Head(texts), sym, os, evs))

\* the handle of the j-th element made for the g-th main line of call c (j = 0: the main element)
Handle(c, g, j) == <<c, g, j>>

\* the end of the pass: idx are the indices of the child lines, main the index of the main
\* line, r the outcome of the calls of _createElementFromLine
GroupCreated(idx, main, r, made) ==
  /\ console' = console \o r.log
  /\ IF r.status = "throw"
     THEN /\ pc' = "idle"
          /\ outcome' = [op |-> "generate", arg |-> calls, threw |-> r.err]
          /\ UNCHANGED <<elems, src, childrenElements, mainElement, iter>>
     ELSE /\ pc' = "loop"
          /\ elems' = elems @@ [h \in {Handle(calls, i, j) : j \in made} |-> r.res[h[3] + 1].el]
          /\ src' = src @@ [h \in {Handle(calls, i, j) : j \in made}
                              |-> IF h[3] = 0 THEN main ELSE idx[h[3]]]
          /\ mainElement' = IF 0 \in made THEN Handle(calls, i, 0) ELSE Null
          /\ childrenElements' =
               [n \in 1..Len(idx) |->
                  <<IF n \in made THEN Handle(calls, i, n) ELSE Null,
                    _level(At(lines, idx[n]))>>]
          /\ iter' = 0
          /\ UNCHANGED outcome

\* the calls of _createElementFromLine of the pass have been made: which returned an element
GroupParsed(idx, main, r) ==
  GroupCreated(idx, main, r, {j \in 0..(Len(r.res) - 1) : r.res[j + 1].status = "ok"})

\* the main line, then the child lines of indices idx, are given to _createElementFromLine
GroupRead(idx) ==
  GroupParsed(idx, At(MainLinesFrom("ev", lines, 0), i)[2],
    CreateAll(variant,
              <<At(mainLines, i)[1]>> \o [n \in 1..Len(idx) |-> At(lines, idx[n])],
              SYMBOL_BETWEEN_ATTRIBUTES, objs, EVENTS,
              [status |-> "ok", err |-> "", res |-> <<>>, log |-> <<>>]))

\* one pass of the loop over mainLines up to the while loop: the main element and the
\* list of children are created (a throw ends generate)
BeginGroup ==
  /\ pc = "group"
  /\ i < Len(mainLines)
  /\ GroupRead(ChildLineIndices(variant, lines, mainLines, i))
  /\ UNCHANGED <<builderVars, dom, template, lines, mainLines, i, calls, binds>>

\* the text node that ParentNode.prepend makes of a null argument
NullText == TextNode(<<"n", "u", "l", "l">>)

\* target.appendChild(child) in every class
Attach_append(v, kids, child) == Append(kids, ElNode(child))

\* target.prepend(child) ("ts", "js2", "ev") or target.appendChild(child) ("js1"):
\* the new child list of the target
Attach(v, kids, child) ==
  IF v = "js1" THEN Append(kids, ElNode(child))
  ELSE <<IF child = Null THEN NullText ELSE ElNode(child)>> \o kids

\* the conditional and the splice of one iteration: child goes into target
AttachDeepest(indexOfDeepest, target, child) ==
  IF target = Null \/ (variant = "js1" /\ child = Null)
  THEN \* a method call on null, or appendChild(null)
       /\ pc' = "idle"
       /\ outcome' = [op |-> "generate", arg |-> calls, threw |-> "TypeError"]
       /\ UNCHANGED <<elems, childrenElements, iter>>
  ELSE /\ elems' = [elems EXCEPT ![target].kids = Attach(variant, @, child)]
       /\ childrenElements' = Splice1(childrenElements, indexOfDeepest)
       /\ iter' = iter + 1
       /\ UNCHANGED <<pc, outcome>>

\* the choice between the nearest parent and the main element
ChooseTarget(indexOfDeepest, indexOfNearestParent) ==
  AttachDeepest(indexOfDeepest,
                IF HasNearestParent(variant, indexOfNearestParent)
                THEN At(childrenElements, indexOfNearestParent)[1]
                ELSE mainElement,
                At(childrenElements, indexOfDeepest)[1])

\* the body of the loop once indexOfDeepest is known
WithDeepest(indexOfDeepest) ==
  ChooseTarget(indexOfDeepest,
               _getIndexOfNearestParentElementOf(indexOfDeepest, childrenElements))

\* one iteration of while (childrenElements.length > 0)
LoopStep ==
  /\ pc = "loop"
  /\ Len(childrenElements) > 0
  /\ WithDeepest(_getIndexOfDeepestElement(variant, childrenElements))
  /\ UNCHANGED <<builderVars, src, dom, console, template, lines, mainLines, i, mainElement,
                 calls, binds>>

\* this.parent.appendChild(mainElement), once the while loop has ended
AppendMain ==
  /\ pc = "loop"
  /\ Len(childrenElements) = 0
  /\ IF mainElement = Null
     THEN \* appendChild(null) throws
          /\ pc' = "idle"
          /\ outcome' = [op |-> "generate", arg |-> calls, threw |-> "TypeError"]
          /\ UNCHANGED <<dom, i>>
     ELSE /\ dom' = [dom EXCEPT ![parent] = Append(@, mainElement)]
          /\ i' = i + 1
          /\ pc' = "group"
          /\ UNCHANGED outcome
  /\ UNCHANGED <<builderVars, elems, src, console, template, lines, mainLines,
                 childrenElements, mainElement, iter, calls, binds>>

\* the loop over mainLines has ended: generate returns
Return ==
  /\ pc = "group"
  /\ i >= Len(mainLines)
  /\ pc' = "idle"
  /\ outcome' = [op |-> "generate", arg |-> calls, threw |-> ""]
  /\ UNCHANGED <<builderVars, elems, src, dom, console, frameVars, calls, binds>>

\* bindEvent(event) with one of the caller's Listener objects
BindEventCall(maxBinds) ==
  /\ pc = "idle"
  /\ binds < maxBinds
  /\ \E o \in DOMAIN objs :
       LET r == bindEvent(o, objs, EVENTS)
       IN  /\ objs' = r.objs
           /\ EVENTS' = r.events
           /\ outcome' = [op |-> "bindEvent", arg |-> o, threw |-> r.threw]
  /\ binds' = binds + 1
  /\ UNCHANGED <<variant, parent, SYMBOL_BETWEEN_ATTRIBUTES, elems, src, dom, console, pc,
                 frameVars, calls>>

\* setParent that takes the children of the former parent along
setParent_moving ==
  /\ pc = "idle"
  /\ \E c \in Containers :
       /\ parent' = c
       /\ dom' = IF c = parent THEN dom
                 ELSE [dom EXCEPT ![c] = @ \o dom[parent], ![parent] = <<>>]
       /\ outcome' = [op |-> "setParent", arg |-> 0, threw |-> ""]
  /\ UNCHANGED <<variant, SYMBOL_BETWEEN_ATTRIBUTES, EVENTS, objs, elems, src, console, pc,
                 frameVars, calls, binds>>

\* setParent(parent)
setParent ==
  /\ pc = "idle"
  /\ \E c \in Containers :
       /\ parent' = c
       /\ outcome' = [op |-> "setParent", arg |-> 0, threw |-> ""]
  /\ UNCHANGED <<variant, SYMBOL_BETWEEN_ATTRIBUTES, EVENTS, objs, elems, src, dom, console, pc,
                 frameVars, calls, binds>>

\* the separators the caller passes to changeSymbolBetweenAttributes
Symbols == {";", "/"}

\* changeSymbolBetweenAttributes(symbol)
changeSymbolBetweenAttributes ==
  /\ pc = "idle"
  /\ \E sym \in Symbols :
       /\ SYMBOL_BETWEEN_ATTRIBUTES' = sym
       /\ outcome' = [op |-> "changeSymbolBetweenAttributes", arg |-> 0, threw |-> ""]
  /\ UNCHANGED <<variant, parent, EVENTS, objs, elems, src, dom, console, pc, frameVars,
                 calls, binds>>

(***************************************************************************)
(* One activation of generate of the event-aware class on templates made   *)
(* of indented lines                                                       *)
(***************************************************************************)
\* deepest indentation of the generated lines
MaxDepth == 3

\* most lines of a generated template
MaxLines == 4

\* the line ">"^d "a"
DepthLine(d) == [k \in 1..d |-> ">"] \o <<"a">>

\* the lines templates are made of: a tag at every depth, a second main line text,
\* an indented line without a tag and a blank line
AsmLineSet == {DepthLine(d) : d \in 0..MaxDepth} \cup {<<"b">>, <<">">>, <<>>}

\* all sequences over S of length at most n
SeqsUpTo(S, n) == UNION {[1..m -> S] : m \in 0..n}

\* Scenario B, written with the surrounding white space of a template literal:
\* div.box / >h1(Title) / >div.menu / >>ul / >>>li(Item 1)
ScenarioB ==
  <<"\n", " ", "d", "i", "v", ".", "b", "o", "x", "\n",
    " ", ">", "h", "1", "(", "T", "i", "t", "l", "e", ")", "\n",
    " ", ">", "d", "i", "v", ".", "m", "e", "n", "u", "\n",
    " ", ">", ">", "u", "l", "\n",
    " ", ">", ">", ">", "l", "i", "(", "I", "t", "e", "m", " ", "1", ")", "\n">>

\* templates of white space only
BlankTemplates == {<<>>, <<" ">>, <<"\n">>, <<" ", "\n", "\t">>}

AsmTemplates ==
  {JoinLines(ls) : ls \in SeqsUpTo(AsmLineSet, MaxLines)} \cup {ScenarioB} \cup BlankTemplates

InitAsm == InitFor("ev", <<>>)

NextAsm ==
  \/ GenerateCall(AsmTemplates, 1)
  \/ BeginGroup
  \/ LoopStep
  \/ AppendMain
  \/ Return

SpecAsm == InitAsm /\ [][NextAsm]_vars

(***************************************************************************)
(* What the claims speak of: source lines, groups and the output tree      *)
(***************************************************************************)
\* the marker count of a line: the length of its longest prefix made of ">" only
Depth(line) ==
  CHOOSE n \in 0..Len(line) :
    /\ \A k \in 1..n : line[k] = ">"
    /\ n = Len(line) \/ line[n + 1] # ">"

\* the 0-based indices of the depth-0 lines of the template being compiled
MainIndices == {k \in 0..(Len(lines) - 1) : Depth(At(lines, k)) = 0}

\* the index of the first depth-0 line after line k, the number of lines if there is none
NextMainAfter(k) ==
  IF \E m \in MainIndices : m > k
  THEN CHOOSE m \in MainIndices : m > k /\ \A n \in MainIndices : n > k => m <= n
  ELSE Len(lines)

\* the index of the g-th depth-0 line (g counted from 0)
NthMain(g) == CHOOSE k \in MainIndices : Cardinality({m \in MainIndices : m < k}) = g

\* the elements made by the current call of generate, and those of its g-th group
CallHandles == {h \in DOMAIN elems : h[1] = calls}

GroupHandles(g) == {h \in CallHandles : h[2] = g}

Root(g) == Handle(calls, g, 0)

\* the while loop of group g has run to its end
LoopEnded(g) ==
  /\ Root(g) \in DOMAIN elems
  /\ g < i \/ (g = i /\ pc = "loop" /\ Len(childrenElements) = 0)

\* the marker count of the line element h was made from
DepthOf(h) == Depth(At(lines, src[h]))

\* the elements that hold element h in their child list
ParentsOf(h) ==
  {p \in DOMAIN elems : \E n \in 1..Len(elems[p].kids) : elems[p].kids[n] = ElNode(h)}

\* the handles of the element children of p, in child-list order
ElementKids(p) ==
  LET ks == SelectSeq(elems[p].kids, LAMBDA x : x.kind = "el")
  IN  [n \in 1..Len(ks) |-> ks[n].ref]

\* the child lines of h's group that precede h's line and are exactly one level shallower
ShallowerBefore(h) ==
  {e \in GroupHandles(h[2]) : e[3] >= 1 /\ src[e] < src[h] /\ DepthOf(e) = DepthOf(h) - 1}

\* where the claim puts h: under the last such line, under the root if there is none
ExpectedParent(h) ==
  IF ShallowerBefore(h) = {} THEN Root(h[2])
  ELSE CHOOSE e \in ShallowerBefore(h) : \A f \in ShallowerBefore(h) : src[f] <= src[e]

\* C1: when the while loop of a group has ended, every child line of depth d is attached
\* to the element of the last line of the group that precedes it and has depth d-1, and to
\* the root of the group when no preceding line of the group has depth d-1.
C1_NearestParent ==
  \A h \in CallHandles :
    (h[3] >= 1 /\ LoopEnded(h[2])) => ParentsOf(h) = {ExpectedParent(h)}

\* C1's case: a line of depth 2 preceded by two lines of depth 1 has been attached.
C1_Witness ==
  \E h \in CallHandles :
    /\ h[3] >= 1 /\ LoopEnded(h[2])
    /\ DepthOf(h) = 2
    /\ Cardinality(ShallowerBefore(h)) >= 2
    /\ ParentsOf(h) = {ExpectedParent(h)}

\* the child lines of group g form a valid ancestor chain: the first one has depth 1 and
\* no line is more than one level deeper than the line before it
ValidChain(g) ==
  LET first == src[Root(g)] + 1
      last  == NextMainAfter(src[Root(g)]) - 1
  IN  /\ first <= last
      /\ Depth(At(lines, first)) = 1
      /\ \A k \in (first + 1)..last : Depth(At(lines, k)) <= Depth(At(lines, k - 1)) + 1

\* the element children of p are in the order of their source lines
KidsInSourceOrder(p) ==
  \A a, b \in 1..Len(ElementKids(p)) :
    a < b => src[ElementKids(p)[a]] < src[ElementKids(p)[b]]

\* the number of ancestors of h inside its group's tree (-1 when h hangs nowhere)
RECURSIVE TreeDepth(_)
TreeDepth(h) ==
  IF h[3] = 0 THEN 0
  ELSE IF ParentsOf(h) = {} THEN -1
  ELSE LET up == TreeDepth(CHOOSE q \in ParentsOf(h) : TRUE)
       IN  IF up = -1 THEN -1 ELSE 1 + up

\* C2: in a group whose depths form a valid ancestor chain, once the while loop has ended
\* the element children of every node, the root included, are in the order of their source
\* lines, and every node's depth in the tree equals its marker count.
C2_ValidChainOrder ==
  \A h \in CallHandles :
    (LoopEnded(h[2]) /\ ValidChain(h[2])) =>
      /\ KidsInSourceOrder(h)
      /\ TreeDepth(h) = DepthOf(h)

\* the tags of the element children of p, in order
KidTags(p) == [n \in 1..Len(ElementKids(p)) |-> elems[ElementKids(p)[n]].tag]

\* C2's case: Scenario B has been assembled: div.box holds h1 and div.menu in that order,
\* div.menu holds ul, ul holds li.
C2_Witness ==
  /\ template = ScenarioB
  /\ LoopEnded(0)
  /\ ValidChain(0)
  /\ KidTags(Root(0)) = << <<"h", "1">>, <<"d", "i", "v">> >>
  /\ KidTags(Handle(calls, 0, 2)) = << <<"u", "l">> >>
  /\ KidTags(Handle(calls, 0, 3)) = << <<"l", "i">> >>
  /\ \A h \in GroupHandles(0) : TreeDepth(h) = DepthOf(h)

\* the roots the current call of generate has appended to the current container
CallRoots == SelectSeq(dom[parent], LAMBDA h : h[1] = calls)

\* generate has returned to its caller without throwing
Returned == pc = "idle" /\ outcome.op = "generate" /\ outcome.threw = ""

ChildLineCount == NextMainAfter(NthMain(i)) - NthMain(i) - 1

\* C5 (state part): while the loop runs, iterations done plus entries left is the number
\* of child lines of the group, and the index of the deepest element is an index of the list.
C5_LoopVariant ==
  pc = "loop" =>
    /\ iter + Len(childrenElements) = ChildLineCount
    /\ Len(childrenElements) > 0 =>
         _getIndexOfDeepestElement(variant, childrenElements) \in 0..(Len(childrenElements) - 1)

\* C5: the while loop terminates for every group: each iteration removes exactly one entry,
\* the deepest index is always valid, and a group of n child lines leaves the loop, fully
\* attached, after exactly n iterations.
C5_LoopTerminates ==
  /\ []C5_LoopVariant
  /\ (pc = "loop") ~> (pc # "loop")

\* C5's case: the loop of a group of three child lines has ended after three iterations.
C5_Witness ==
  /\ pc = "loop"
  /\ Len(childrenElements) = 0
  /\ iter = 3
  /\ ChildLineCount = 3
  /\ \A h \in GroupHandles(i) : h[3] >= 1 => ParentsOf(h) # {}

\* the scheduling of generate: a synchronous run, so inside the while loop the next
\* statement is always executed
SpecAsmFair == InitAsm /\ [][NextAsm]_vars /\ WF_vars(LoopStep) /\ WF_vars(AppendMain)

(***************************************************************************)
(* One activation of generate of the classes that log and return null for  *)
(* a line without a tag                                                    *)
(***************************************************************************)
InitTs == InitFor("ts", <<>>)

SpecTs == InitTs /\ [][NextAsm]_vars

InitNull == InitFor("ts", <<>>) \/ InitFor("js2", <<>>)

SpecNull == InitNull /\ [][NextAsm]_vars

\* generate has ended, by a return or by a throw
Ended == pc = "idle" /\ outcome.op = "generate"

\* every line of the template is at depth 0 and names a tag
AllDepth0 ==
  /\ Len(lines) > 0
  /\ \A k \in 0..(Len(lines) - 1) :
       /\ Depth(At(lines, k)) = 0
       /\ \E n \in 1..Len(At(lines, k)) : At(lines, k)[n] \in WordChars

\* C4: generate of HTMLBuilder.ts on a template whose n lines are all at depth 0 gives the
\* container exactly n roots, in source order, and no root has an element child.
C4_AllDepth0 ==
  (variant = "ts" /\ Ended /\ AllDepth0) =>
    /\ outcome.threw = ""
    /\ Len(CallRoots) = Len(lines)
    /\ \A n \in 1..Len(CallRoots) :
         /\ src[CallRoots[n]] = n - 1
         /\ ElementKids(CallRoots[n]) = <<>>

\* C6: in the classes whose _createElementFromLine returns null for a line without a tag,
\* no null is stored in the list of children the while loop works on, and no null is the
\* root of a group.
C6_NoNullPlaceholder ==
  (variant \in {"ts", "js2"} /\ pc = "loop") =>
    /\ mainElement # Null
    /\ \A n \in 1..Len(childrenElements) : childrenElements[n][1] # Null

\* C7: generate of HTMLBuilder.ts called with an empty or white-space-only template
\* appends nothing to the container and raises no error.
C7_BlankTemplate ==
  (variant = "ts" /\ Ended /\ Trim(template) = <<>>) =>
    /\ outcome.threw = ""
    /\ \A c \in Containers : dom[c] = <<>>

(***************************************************************************)
(* The event-aware builder with its registry: bindEvent, setParent,        *)
(* changeSymbolBetweenAttributes and one activation of generate            *)
(***************************************************************************)
\* most calls of bindEvent
MaxBinds == 2

\* a Listener object of the caller; Undefined stands for a property that is absent
Listener(name, type, callback, options) ==
  [name |-> name, type |-> type, callback |-> callback, options |-> options]

Click == <<"c", "l", "i", "c", "k">>

KeyUp == <<"k", "e", "y", "u", "p">>

\* the Listener objects the caller passes to bindEvent
ListenerPool ==
  << Listener(<<"x">>, Click, <<"f">>, Undefined),
     Listener(<<"o", "n", "x">>, KeyUp, <<"g">>, <<"once">>),
     Listener(<<"o", "n", "y", "o", "n">>, Click, <<"g">>, Undefined),
     Listener(Undefined, Click, <<"f">>, Undefined),
     Listener(<<"o", "n", "z">>, <<>>, <<"f">>, Undefined),
     Listener(<<"o", "n", "z">>, Click, Undefined, Undefined),
     Listener(<<"o", "n">>, Click, <<"f">>, Undefined),
     Listener(<<"1", "x">>, Click, <<"f">>, Undefined),
     Listener(<<"o", "n", "o", "n", "x">>, Click, <<"h">>, Undefined) >>

\* the templates with event lists:
\* a@x | a@x;yon;q | a@1x;x | a@q;;x;yon | b(t)[k=v]@q | a@x / >b@yon |
\* a@x / @q / b@x | a@x / >b@yon / b@x / >@   (the last two have a line without a tag)
EvTemplates ==
  { <<"a", "@", "x">>,
    <<"a", "@", "x", ";", "y", "o", "n", ";", "q">>,
    <<"a", "@", "1", "x", ";", "x">>,
    <<"a", "@", "q", ";", ";", "x", ";", "y", "o", "n">>,
    <<"b", "(", "t", ")", "[", "k", "=", "v", "]", "@", "q">>,
    <<"a", "@", "x", "\n", ">", "b", "@", "y", "o", "n">>,
    <<"a", "@", "x", "\n", "@", "q", "\n", "b", "@", "x">>,
    <<"a", "@", "x", "\n", ">", "b", "@", "y", "o", "n", "\n", "b", "@", "x", "\n", ">", "@">> }

InitEv == InitFor("ev", ListenerPool)

NextEv ==
  \/ GenerateCall(EvTemplates, 1)
  \/ BeginGroup
  \/ LoopStep
  \/ AppendMain
  \/ Return
  \/ BindEventCall(MaxBinds)
  \/ setParent
  \/ changeSymbolBetweenAttributes

SpecEv == InitEv /\ [][NextEv]_vars

\* this step is a call of bindEvent; the object passed is outcome'.arg
BindStep == binds' = binds + 1

DropTwo(name) == SubSeq(name, 3, Len(name))

\* the name starts with the two characters o, n
HasOnPrefix(name) == Len(name) >= 2 /\ name[1] = "o" /\ name[2] = "n"

\* C9 as stated: a registration whose name is "on" followed by s stores the binding under
\* exactly s (only the leading "on" goes) and a reference to s resolves to that binding;
\* a name that does not start with "on" is stored unchanged.
C9_ResolvesToIt ==
  [][(BindStep /\ outcome'.threw = "") =>
       /\ EVENTS' = Append(EVENTS, outcome'.arg)
       /\ objs'[outcome'.arg].name =
            IF HasOnPrefix(objs[outcome'.arg].name)
            THEN DropTwo(objs[outcome'.arg].name)
            ELSE objs[outcome'.arg].name
       /\ _searchForEvent(objs'[outcome'.arg].name, objs', EVENTS') = outcome'.arg]_vars

\* the registry holds a binding stored under name
Stored(name, os, events) == \E k \in 1..Len(events) : os[events[k]].name = name

\* C9: a registration whose name is "on" followed by s stores the binding under exactly s
\* (only the leading "on" goes); a name that does not start with "on" is stored unchanged;
\* a reference to the stored name resolves to a binding of that name, and to this binding
\* when no earlier registration is stored under the same name.
C9_NameNormalized ==
  [][(BindStep /\ outcome'.threw = "") =>
       /\ EVENTS' = Append(EVENTS, outcome'.arg)
       /\ objs'[outcome'.arg].name =
            IF HasOnPrefix(objs[outcome'.arg].name)
            THEN DropTwo(objs[outcome'.arg].name)
            ELSE objs[outcome'.arg].name
       /\ _searchForEvent(objs'[outcome'.arg].name, objs', EVENTS') # 0
       /\ objs'[_searchForEvent(objs'[outcome'.arg].name, objs', EVENTS')].name
            = objs'[outcome'.arg].name
       /\ ~Stored(objs'[outcome'.arg].name, objs', EVENTS)
            => _searchForEvent(objs'[outcome'.arg].name, objs', EVENTS') = outcome'.arg]_vars

\* C9's case: the object named "onyon" is registered under "yon", and a line that refers
\* to @yon has received its listener.
C9_Witness ==
  /\ EVENTS = <<3>>
  /\ objs[3].name = <<"y", "o", "n">>
  /\ \E h \in CallHandles :
       /\ At(lines, src[h]) = <<">", "b", "@", "y", "o", "n">>
       /\ elems[h].listeners =
            <<[type |-> Click, callback |-> <<"g">>, options |-> Undefined]>>

\* the event list of a line: the text after its "@"
EventListOf(line) == SubSeq(line, 1 + CHOOSE k \in 1..Len(line) : line[k] = "@", Len(line))

\* the positions in the registry of the bindings stored under name
Registered(name) == {k \in 1..Len(EVENTS) : objs[EVENTS[k]].name = name}

\* the listener the claim gives an element for a name: that of the first binding of the name
FirstBinding(name) ==
  LET k == CHOOSE a \in Registered(name) : \A b \in Registered(name) : a <= b
  IN  [type |-> objs[EVENTS[k]].type, callback |-> objs[EVENTS[k]].callback,
       options |-> objs[EVENTS[k]].options]

\* the listeners the claim gives an element for the names of an event list, in order
RECURSIVE ExpectedListeners(_)
ExpectedListeners(names) ==
  IF names = <<>> THEN <<>>
  ELSE (IF /\ Head(names) # <<>>
           /\ Head(names)[1] \notin Digits
           /\ Registered(Head(names)) # {}
        THEN <<FirstBinding(Head(names))>>
        ELSE <<>>) \o ExpectedListeners(Tail(names))

RegistryOf(os, events) == [k \in 1..Len(events) |-> os[events[k]]]

\* C11: the registry is the sequence of the successfully registered events in call order:
\* a successful bindEvent appends one entry at the end and leaves the earlier entries as
\* they were; a failed bindEvent, generate, setParent and changeSymbolBetweenAttributes
\* leave every entry as it was.
C11_RegistryPersistence ==
  [][IF BindStep /\ outcome'.threw = ""
     THEN /\ Len(EVENTS') = Len(EVENTS) + 1
          /\ SubSeq(RegistryOf(objs', EVENTS'), 1, Len(EVENTS)) = RegistryOf(objs, EVENTS)
     ELSE RegistryOf(objs', EVENTS') = RegistryOf(objs, EVENTS)]_vars

(***************************************************************************)
(* The event-aware builder across two calls of generate, with the          *)
(* separator changed in between                                            *)
(***************************************************************************)
\* most calls of generate on one builder
MaxCalls == 2

\* the Listener objects of this caller
SymPool ==
  << Listener(<<"x">>, Click, <<"f">>, Undefined),
     Listener(<<"y">>, KeyUp, <<"g">>, Undefined) >>

\* the templates with a bracket list: a[k=v;c] | a[k=v/c]@x;y | a / >b[c/d=e]
SymTemplates ==
  { <<"a", "[", "k", "=", "v", ";", "c", "]">>,
    <<"a", "[", "k", "=", "v", "/", "c", "]", "@", "x", ";", "y">>,
    <<"a", "\n", ">", "b", "[", "c", "/", "d", "=", "e", "]">> }

InitSym == InitFor("ev", SymPool)

NextSym ==
  \/ GenerateCall(SymTemplates, MaxCalls)
  \/ BeginGroup
  \/ LoopStep
  \/ AppendMain
  \/ Return
  \/ BindEventCall(MaxBinds)
  \/ setParent
  \/ changeSymbolBetweenAttributes

SpecSym == InitSym /\ [][NextSym]_vars

\* the text between the "[" and the "]" of a line with one bracket list; <<>> without one
BracketText(line) ==
  IF \E k \in 1..Len(line) : line[k] = "["
  THEN SubSeq(line, 1 + (CHOOSE k \in 1..Len(line) : line[k] = "["),
                    (CHOOSE k \in 1..Len(line) : line[k] = "]") - 1)
  ELSE <<>>

\* the pieces of text between the occurrences of the character sep
RECURSIVE Pieces(_, _)
Pieces(text, sep) ==
  IF \E k \in 1..Len(text) : text[k] = sep
  THEN LET k == CHOOSE a \in 1..Len(text) :
                  text[a] = sep /\ \A b \in 1..(a - 1) : text[b] # sep
       IN  <<SubSeq(text, 1, k - 1)>> \o Pieces(SubSeq(text, k + 1, Len(text)), sep)
  ELSE <<text>>

\* the attribute a fragment with at most one "=" stands for
PairOf(frag) ==
  LET p == Pieces(frag, "=")
  IN  IF Len(p) = 1 THEN <<frag, <<>>>> ELSE <<p[1], p[2]>>

\* the attributes of a line whose bracket list is split on sep
AttrsSplitOn(line, sep) ==
  IF BracketText(line) = <<>> THEN <<>>
  ELSE [k \in 1..Len(Pieces(BracketText(line), sep)) |->
          PairOf(Pieces(BracketText(line), sep)[k])]

\* the listeners of a line whose event list is split on ";"
ListenersSplitOnSemicolon(line) ==
  IF \E k \in 1..Len(line) : line[k] = "@"
  THEN ExpectedListeners(Pieces(EventListOf(line), ";"))
  ELSE <<>>

\* C12: the separator is ";" until changeSymbolBetweenAttributes(s) sets it; the call changes
\* nothing else (the elements mounted before, the registry and the parent stay as they were);
\* every generate that runs afterwards splits the bracket text on s, and the event list
\* on ";" whatever s is.
C12_SeparatorChange ==
  /\ SYMBOL_BETWEEN_ATTRIBUTES = ";"
  /\ [][/\ SYMBOL_BETWEEN_ATTRIBUTES' # SYMBOL_BETWEEN_ATTRIBUTES
             => outcome'.op = "changeSymbolBetweenAttributes"
        /\ (outcome'.op = "changeSymbolBetweenAttributes" /\ outcome' # outcome)
             => /\ elems' = elems
                /\ dom' = dom
                /\ parent' = parent
                /\ EVENTS' = EVENTS
                /\ objs' = objs]_vars
  /\ [](pc # "idle" =>
          \A h \in CallHandles :
            /\ elems[h].attrs = AttrsSplitOn(At(lines, src[h]), SYMBOL_BETWEEN_ATTRIBUTES)
            /\ elems[h].listeners = ListenersSplitOnSemicolon(At(lines, src[h])))

\* C12's case: a first generate has mounted a[k=v;c] split on ";"; after the separator was
\* set to "/", a second generate has parsed a[k=v/c]@x;y into two attributes and two
\* listeners.
C12_Witness ==
  /\ calls = 2
  /\ pc = "loop"
  /\ SYMBOL_BETWEEN_ATTRIBUTES = "/"
  /\ Handle(1, 0, 0) \in DOMAIN elems
  /\ elems[Handle(1, 0, 0)].attrs = << <<<<"k">>, <<"v">>>>, <<<<"c">>, <<>>>> >>
  /\ dom["body"] = <<Handle(1, 0, 0)>>
  /\ elems[Root(0)].attrs = << <<<<"k">>, <<"v">>>>, <<<<"c">>, <<>>>> >>
  /\ Len(elems[Root(0)].listeners) = 2

(***************************************************************************)
(* The line parser of the event-aware class, called by generate for a      *)
(* template that ends with the line under study                            *)
(***************************************************************************)
\* the concatenation of a sequence of strings
RECURSIVE Concat(_)
Concat(ss) == IF ss = <<>> THEN <<>> ELSE Head(ss) \o Concat(Tail(ss))

\* a line written in grammar order: tag .class ... #id (content) [name=value]
Compose(tag, cls, id, content, name, value) ==
  tag \o Concat([k \in 1..Len(cls) |-> <<".">> \o cls[k]]) \o <<"#">> \o id
      \o <<"(">> \o content \o <<")">> \o <<"[">> \o name \o <<"=">> \o value \o <<"]">>

\* the parts the lines in grammar order are written from: word characters and hyphens
PartTags == { <<"b">>, <<"h", "1">>, <<"x", "-", "y">> }

PartClasses ==
  { << <<"c">> >>, << <<"c", "-", "d">>, <<"e">> >>, << <<"c">>, <<"c">> >>,
    << <<"1", "c">>, <<"e">> >> }

PartIds == { <<"i">>, <<"i", "-", "2">> }

PartContents == { <<"t">>, <<"t", "-", "t">> }

PartNames == { <<"k">>, <<"d", "-", "k">>, <<"1", "k">> }

PartValues == { <<"v">>, <<"v", "-", "1">> }

\* button.btn-primary#yeah(Click!)[type=button]
ScenarioA ==
  <<"b", "u", "t", "t", "o", "n", ".", "b", "t", "n", "-", "p", "r", "i", "m", "a", "r", "y",
    "#", "y", "e", "a", "h", "(", "C", "l", "i", "c", "k", "!", ")",
    "[", "t", "y", "p", "e", "=", "b", "u", "t", "t", "o", "n", "]">>

GrammarLines ==
  { Compose(t, c, d, x, n, v) : t \in PartTags, c \in PartClasses, d \in PartIds,
                                x \in PartContents, n \in PartNames, v \in PartValues }
    \cup {ScenarioA}

\* a line is given to the parser as a main line, or as the child line of a main line r
AsMainOrChild(ls) == ls \cup { <<"r", "\n", ">">> \o l : l \in ls }

\* lines with a bracket list whose fragments have none, one or several "=":
\* a[k=v] | a[k;c=d] | a[k=v=w] | a[u=x=y=z;c]
AttrEqLines ==
  { <<"a", "[", "k", "=", "v", "]">>,
    <<"a", "[", "k", ";", "c", "=", "d", "]">>,
    <<"a", "[", "k", "=", "v", "=", "w", "]">>,
    <<"a", "[", "u", "=", "x", "=", "y", "=", "z", ";", "c", "]">> }

\* lines with digit-first names at each position, with and without a space after the
\* separator: a[1c=d;k=v] | a[k=v;1c=d] | a[k=v; 1c=d] | a[k=v; c=d] | a[k; 1c; e]
AttrDigitLines ==
  { <<"a", "[", "1", "c", "=", "d", ";", "k", "=", "v", "]">>,
    <<"a", "[", "k", "=", "v", ";", "1", "c", "=", "d", "]">>,
    <<"a", "[", "k", "=", "v", ";", " ", "1", "c", "=", "d", "]">>,
    <<"a", "[", "k", "=", "v", ";", " ", "c", "=", "d", "]">>,
    <<"a", "[", "k", ";", " ", "1", "c", ";", " ", "e", "]">> }

\* lines with parentheses: a(t)[k=v] | a(t)[k=(v)] | a(x(y)z)[k] | a.c#i(t)[k=v;c=f(x)]
ParenLines ==
  { <<"a", "(", "t", ")", "[", "k", "=", "v", "]">>,
    <<"a", "(", "t", ")", "[", "k", "=", "(", "v", ")", "]">>,
    <<"a", "(", "x", "(", "y", ")", "z", ")", "[", "k", "]">>,
    <<"a", ".", "c", "#", "i", "(", "t", ")", "[", "k", "=", "v", ";", "c", "=", "f", "(", "x", ")", "]">> }

\* 1bad.class button
ScenarioD ==
  <<"1", "b", "a", "d", ".", "c", "l", "a", "s", "s", " ", "b", "u", "t", "t", "o", "n">>

ParseTemplates ==
  AsMainOrChild(GrammarLines \cup AttrEqLines \cup AttrDigitLines \cup ParenLines
                  \cup {ScenarioD})

InitParse == InitFor("ev", <<>>)

NextParse ==
  \/ GenerateCall(ParseTemplates, 1)
  \/ BeginGroup
  \/ LoopStep
  \/ AppendMain
  \/ Return

SpecParse == InitParse /\ [][NextParse]_vars

\* the last line of the template, without its indentation marker
ParsedLine ==
  LET l == lines[Len(lines)]
  IN  IF l # <<>> /\ l[1] = ">" THEN Tail(l) ELSE l

\* the members of a sequence
Members(q) == {q[k] : k \in 1..Len(q)}

\* the element has tag t, the classes of cls, id d, one text child x and the attribute n = v
HasParts(e, t, cls, d, x, n, v) ==
  /\ e.tag = t
  /\ Members(e.classes) = Members(cls)
  /\ Len(e.classes) = Cardinality(Members(cls))
  /\ e.id = d
  /\ e.kids = <<TextNode(x)>>
  /\ e.attrs = << <<n, v>> >>
  /\ e.listeners = <<>>

\* the result of generate for a template that ends with Compose(t, cls, d, x, n, v)
YieldsParts(t, cls, d, x, n, v) ==
  /\ outcome.threw = ""
  /\ \E h \in CallHandles :
       src[h] = Len(lines) - 1 /\ HasParts(elems[h], t, cls, d, x, n, v)

\* button.btn-primary#yeah(Click!)[type=button] gives tag button, class btn-primary,
\* id yeah, text Click! and the attribute type=button
ScenarioAYields ==
  ParsedLine = ScenarioA =>
    YieldsParts(<<"b", "u", "t", "t", "o", "n">>,
                << <<"b", "t", "n", "-", "p", "r", "i", "m", "a", "r", "y">> >>,
                <<"y", "e", "a", "h">>, <<"C", "l", "i", "c", "k", "!">>,
                <<"t", "y", "p", "e">>, <<"b", "u", "t", "t", "o", "n">>)

\* C13 as stated: a line written in grammar order from parts made of word characters and
\* hyphens yields an element with that tag, exactly those classes, that id, one text child
\* equal to the content and exactly that attribute; so does Scenario A.
C13_GrammarOrder ==
  Ended =>
    /\ ScenarioAYields
    /\ \A t \in PartTags, c \in PartClasses, d \in PartIds,
          x \in PartContents, n \in PartNames, v \in PartValues :
         ParsedLine = Compose(t, c, d, x, n, v) => YieldsParts(t, c, d, x, n, v)

\* a tag of word characters that starts with a letter
PlainTag(t) == t[1] \in Letters /\ \A k \in 1..Len(t) : t[k] \in WordChars

\* C13, amended: the same, for a tag made of word characters only that starts with a
\* letter, class names that do not start with a digit and an attribute name that starts
\* with a letter.
C13_GrammarOrderPlain ==
  Ended =>
    /\ ScenarioAYields
    /\ \A t \in PartTags, c \in PartClasses, d \in PartIds,
          x \in PartContents, n \in PartNames, v \in PartValues :
         ( /\ ParsedLine = Compose(t, c, d, x, n, v)
           /\ PlainTag(t)
           /\ \A k \in 1..Len(c) : c[k][1] \notin Digits
           /\ n[1] \in Letters )
           => YieldsParts(t, c, d, x, n, v)

\* C13's case: h1.c-d.e#i-2(t-t)[d-k=v-1] has been parsed as a child line
C13_Witness ==
  /\ Ended
  /\ Len(lines) = 2
  /\ ParsedLine = Compose(<<"h", "1">>, << <<"c", "-", "d">>, <<"e">> >>, <<"i", "-", "2">>,
                          <<"t", "-", "t">>, <<"d", "-", "k">>, <<"v", "-", "1">>)
  /\ YieldsParts(<<"h", "1">>, << <<"c", "-", "d">>, <<"e">> >>, <<"i", "-", "2">>,
                 <<"t", "-", "t">>, <<"d", "-", "k">>, <<"v", "-", "1">>)

\* the element made from the last line of the template has the attributes as
ParsedWithAttrs(as) ==
  /\ outcome.threw = ""
  /\ \E h \in CallHandles : src[h] = Len(lines) - 1 /\ elems[h].attrs = as

\* the attribute of a fragment: the name is the text before the first "=", the value
\* the whole text after it; without "=" the value is empty
FirstEqPair(frag) ==
  IF \E k \in 1..Len(frag) : frag[k] = "="
  THEN LET k == CHOOSE a \in 1..Len(frag) :
                  frag[a] = "=" /\ \A b \in 1..(a - 1) : frag[b] # "="
       IN  <<SubSeq(frag, 1, k - 1), SubSeq(frag, k + 1, Len(frag))>>
  ELSE <<frag, <<>>>>

\* the attributes of a sequence of fragments
PairsOf(frags) == [k \in 1..Len(frags) |-> FirstEqPair(frags[k])]

\* C14: for every fragment of the bracket list that contains "=", the attribute name is
\* the text before the first "=" and the value the whole text after the first "=" (further
\* "=" included); a fragment without "=" is set with an empty value.
C14_FirstEquals ==
  Ended =>
    \A l \in AttrEqLines :
      ParsedLine = l => ParsedWithAttrs(PairsOf(Pieces(BracketText(l), ";")))

\* the fragments, trimmed, whose name starts (or does not start) with a digit
RECURSIVE TrimmedFragments(_, _)
TrimmedFragments(frags, digitFirst) ==
  IF frags = <<>> THEN <<>>
  ELSE (IF (Trim(Head(frags)) # <<>> /\ Trim(Head(frags))[1] \in Digits) = digitFirst
        THEN <<Trim(Head(frags))>> ELSE <<>>) \o TrimmedFragments(Tail(frags), digitFirst)

\* the diagnostics about attributes that generate has written
AttributeDiagnostics == {n \in 1..Len(console) : console[n][1] = "attribute"}

\* C15: every fragment of the bracket list is trimmed; a fragment whose trimmed name starts
\* with a digit sets no attribute and gets a diagnostic, and the other fragments of the line
\* are applied, at every position and with or without whitespace after the separator.
C15_DigitFirstAttribute ==
  Ended =>
    \A l \in AttrDigitLines :
      ParsedLine = l =>
        /\ ParsedWithAttrs(PairsOf(TrimmedFragments(Pieces(BracketText(l), ";"), FALSE)))
        /\ Cardinality(AttributeDiagnostics)
             = Len(TrimmedFragments(Pieces(BracketText(l), ";"), TRUE))

\* the 1-based position of the ")" that balances the "(" before position p; depth counts
\* the parentheses still open
RECURSIVE BalancingClose(_, _, _)
BalancingClose(s, p, depth) ==
  IF p > Len(s) THEN 0
  ELSE IF s[p] = "(" THEN BalancingClose(s, p + 1, depth + 1)
  ELSE IF s[p] = ")" THEN (IF depth = 0 THEN p ELSE BalancingClose(s, p + 1, depth - 1))
  ELSE BalancingClose(s, p + 1, depth)

\* the position of the first "(" of the line
FirstOpen(s) == CHOOSE a \in 1..Len(s) : s[a] = "(" /\ \A b \in 1..(a - 1) : s[b] # "("

\* the text between the first "(" and the ")" that balances it
BalancedContent(s) ==
  SubSeq(s, FirstOpen(s) + 1, BalancingClose(s, FirstOpen(s) + 1, 0) - 1)

\* the text of the bracket list that follows the balanced parentheses, up to the end of the line
FollowingBrackets(s) == SubSeq(s, BalancingClose(s, FirstOpen(s) + 1, 0) + 2, Len(s) - 1)

\* C16: the text content of the element is the text between the first "(" after the
\* tag/class/id part and the ")" that balances it, whatever parentheses occur later in the
\* line, and the bracket list that follows is parsed as attributes.
C16_BalancedContent ==
  Ended =>
    \A l \in ParenLines :
      ParsedLine = l =>
        /\ outcome.threw = ""
        /\ \E h \in CallHandles :
             /\ src[h] = Len(lines) - 1
             /\ elems[h].kids = <<TextNode(BalancedContent(l))>>
             /\ elems[h].attrs = PairsOf(Pieces(FollowingBrackets(l), ";"))

\* C17: parsing the line 1bad.class button drops the class 1bad, keeps the class class and
\* gives an element whose tag is button.
C17_ScenarioD ==
  Ended =>
    (ParsedLine = ScenarioD =>
       /\ outcome.threw = ""
       /\ \E h \in CallHandles :
            /\ src[h] = Len(lines) - 1
            /\ elems[h].tag = <<"b", "u", "t", "t", "o", "n">>
            /\ elems[h].classes = << <<"c", "l", "a", "s", "s">> >>)

(***************************************************************************)
(* The assemblers of src/src/HTMLBuilder.ts and of the first class of      *)
(* src/src/HTMLBuilder.js on the same group                                *)
(***************************************************************************)
\* while (childrenElements.length > 0) of class v as a function: kids maps every element
\* of the group to its child list, main is the main element
RECURSIVE whileLoop(_, _, _, _)
\* the conditional and the splice, with both indices known
loopAttach(v, children, kids, main, indexOfDeepest, indexOfNearestParent) ==
  whileLoop(v, Splice1(children, indexOfDeepest),
            [kids EXCEPT ![IF HasNearestParent(v, indexOfNearestParent)
                           THEN At(children, indexOfNearestParent)[1]
                           ELSE main] = Attach(v, @, At(children, indexOfDeepest)[1])],
            main)

\* the body of the loop once indexOfDeepest is known
loopWithDeepest(v, children, kids, main, indexOfDeepest) ==
  loopAttach(v, children, kids, main, indexOfDeepest,
             _getIndexOfNearestParentElementOf(indexOfDeepest, children))

whileLoop(v, children, kids, main) ==
  IF children = <<>> THEN kids
  ELSE loopWithDeepest(v, children, kids, main, _getIndexOfDeepestElement(v, children))

\* one main line followed by child lines of depths 1..MaxDepth
PairTemplates ==
  { JoinLines(<<DepthLine(0)>> \o ls) :
      ls \in SeqsUpTo({DepthLine(d) : d \in 1..MaxDepth}, MaxLines - 1) }

InitPair == InitFor("ts", <<>>) \/ InitFor("js1", <<>>)

NextPair ==
  \/ GenerateCall(PairTemplates, 1)
  \/ BeginGroup
  \/ LoopStep
  \/ AppendMain
  \/ Return

SpecPair == InitPair /\ [][NextPair]_vars

\* the other one of the two classes
OtherClass == IF variant = "ts" THEN "js1" ELSE "ts"

\* the list of children of the group of a template with one main line, before the loop
ChildrenOfGroup == [n \in 1..(Len(lines) - 1) |-> <<Handle(calls, 0, n), Depth(lines[n + 1])>>]

\* C18: for every group (a root and child lines of depths >= 1) the assembler of
\* HTMLBuilder.ts and that of the first class of HTMLBuilder.js attach every child to the
\* same parent and leave the children of every parent in the same order.
C18_SameAssembly ==
  (variant \in {"ts", "js1"} /\ pc = "loop" /\ childrenElements = <<>>) =>
    \A h \in GroupHandles(0) :
      elems[h].kids =
        whileLoop(OtherClass, ChildrenOfGroup, [g \in GroupHandles(0) |-> <<>>], Root(0))[h]

(***************************************************************************)
(* The assembler of the event-aware class on depth lists that skip levels  *)
(***************************************************************************)
\* C19 as stated: for every depth list with depths >= 1, lists that skip levels included,
\* once the while loop has ended the element children of every node, the root included,
\* are in the order of their source lines.
C19_SourceOrder ==
  \A h \in CallHandles : LoopEnded(h[2]) => KidsInSourceOrder(h)

\* the element children of p are ordered by depth, shallower first, and by source line
\* among those of equal depth
KidsByDepthThenSource(p) ==
  \A a, b \in 1..Len(ElementKids(p)) :
    a < b =>
      \/ DepthOf(ElementKids(p)[a]) < DepthOf(ElementKids(p)[b])
      \/ /\ DepthOf(ElementKids(p)[a]) = DepthOf(ElementKids(p)[b])
         /\ src[ElementKids(p)[a]] < src[ElementKids(p)[b]]

\* C19, amended: once the while loop has ended, the element children of every node are
\* ordered by depth, shallower first, and in the order of their source lines among those
\* of equal depth (which is the source order when no level is skipped).
C19_DepthThenSourceOrder ==
  \A h \in CallHandles : LoopEnded(h[2]) => KidsByDepthThenSource(h)

\* C19's case: the group a / >a / >>>a / >a has been assembled; the root holds the two lines
\* of depth 1 first and the line of depth 3, which comes between them in the source, last.
C19_Witness ==
  /\ LoopEnded(0)
  /\ [n \in 1..Len(lines) |-> Depth(lines[n])] = <<0, 1, 3, 1>>
  /\ ElementKids(Root(0)) = <<Handle(calls, 0, 1), Handle(calls, 0, 3), Handle(calls, 0, 2)>>

\* how many times element h occurs in the child list of p
Occurrences(p, h) == Cardinality({n \in 1..Len(elems[p].kids) : elems[p].kids[n] = ElNode(h)})

\* the elements of the tree below p, p included
RECURSIVE Subtree(_)
Subtree(p) ==
  {p} \cup UNION {Subtree(ElementKids(p)[n]) : n \in 1..Len(ElementKids(p))}

\* C20: when the while loop of a group has ended, whatever the depths of its child lines,
\* each child line's element is attached exactly once, to the root or to the element of an
\* earlier line of the same group; the root hangs nowhere, and its subtree holds exactly
\* one element per line of the group.
C20_Conservation ==
  \A g \in 0..(Len(lines) - 1) :
    LoopEnded(g) =>
      /\ \A h \in GroupHandles(g) :
           IF h = Root(g) THEN ParentsOf(h) = {}
           ELSE /\ Cardinality(ParentsOf(h)) = 1
                /\ \A p \in ParentsOf(h) :
                     /\ p \in GroupHandles(g)
                     /\ src[p] < src[h]
                     /\ Occurrences(p, h) = 1
      /\ Cardinality(GroupHandles(g)) = NextMainAfter(NthMain(g)) - NthMain(g)
      /\ Subtree(Root(g)) = GroupHandles(g)

\* C20's case: a group whose depths are not a valid chain (a / >>a / >a / >>>a) has been
\* assembled and its four elements form one tree.
C20_Witness ==
  /\ LoopEnded(0)
  /\ [n \in 1..Len(lines) |-> Depth(lines[n])] = <<0, 2, 1, 3>>
  /\ ~ValidChain(0)
  /\ Cardinality(Subtree(Root(0))) = 4

(***************************************************************************)
(* What generate of the event-aware class leaves behind when it throws     *)
(***************************************************************************)
\* the line has no word character, so REGEX captures no tag
NoTag(line) == \A k \in 1..Len(line) : line[k] \notin WordChars

\* the groups (counted from 0) that hold a line without a tag
BadGroups ==
  {g \in 0..(Cardinality(MainIndices) - 1) :
     \E k \in NthMain(g)..(NextMainAfter(NthMain(g)) - 1) : NoTag(At(lines, k))}

\* generate has thrown the error of a line without a tag
ThrewUnableToParse ==
  Ended /\ outcome.threw = "HTMLBuilder: unable to parse a line"

BlankLineSet ==
  {DepthLine(0), DepthLine(1), DepthLine(2), <<"b">>, <<>>, <<" ">>, <<"\t", " ">>}

BlankInsideTemplates == {JoinLines(ls) : ls \in SeqsUpTo(BlankLineSet, MaxLines)}

InitBlank == InitFor("ev", <<>>)

NextBlank ==
  \/ GenerateCall(BlankInsideTemplates, 1)
  \/ BeginGroup
  \/ LoopStep
  \/ AppendMain
  \/ Return

SpecBlank == InitBlank /\ [][NextBlank]_vars

\* the text holds white space only (or nothing)
IsBlank(text) == \A k \in 1..Len(text) : text[k] \in WhiteSpace

\* the lines of the template as written, before any trimming
RawLines == Pieces(template, "\n")

\* the positions in RawLines of the blank lines that lie between two non-blank lines
BlanksInside ==
  {b \in 1..Len(RawLines) :
     /\ IsBlank(RawLines[b])
     /\ \E a \in 1..(b - 1) : ~IsBlank(RawLines[a])
     /\ \E c \in (b + 1)..Len(RawLines) : ~IsBlank(RawLines[c])}

\* the 0-based index, among the lines generate works on, of the first blank line
FirstBlankIndex ==
  CHOOSE b \in 0..(Len(lines) - 1) :
    At(lines, b) = <<>> /\ \A a \in 0..(b - 1) : At(lines, a) # <<>>

\* C22: a blank or whitespace-only line between two non-blank lines is not skipped: it is
\* one of the lines generate works on, it is recorded as a depth-0 line that starts its own
\* group, the lines that follow it are not given to the group before it, no tree is ever
\* assembled for it, and generate throws the unable-to-parse error when it reaches that
\* group (at the latest: a group before it may hold a line without a tag).
C22_BlankLineInside ==
  (calls = 1 /\ BlanksInside # {}) =>
    /\ Cardinality({b \in 0..(Len(lines) - 1) : At(lines, b) = <<>>})
         >= Cardinality(BlanksInside)
    /\ \E n \in 1..Len(mainLines) : mainLines[n] = << <<>>, FirstBlankIndex >>
    /\ FirstBlankIndex \in MainIndices
    /\ \A h \in CallHandles : src[h] < FirstBlankIndex
    /\ pc = "loop" => At(mainLines, i)[1] # <<>>
    /\ Ended =>
         /\ ThrewUnableToParse
         /\ NthMain(i) <= FirstBlankIndex
         /\ (\A a \in 0..(FirstBlankIndex - 1) : ~NoTag(At(lines, a)))
              => /\ NthMain(i) = FirstBlankIndex
                 /\ CallRoots = [n \in 1..i |-> Root(n - 1)]

\* C22's case: generate has thrown at the blank line of a / >a / (blank) / >a after the
\* tree of the first group, which did not take the line after the blank, was appended.
C22_Witness ==
  /\ ThrewUnableToParse
  /\ BlanksInside = {3}
  /\ RawLines[3] # <<>>
  /\ Len(lines) = 4
  /\ i = 1
  /\ CallRoots = <<Root(0)>>
  /\ ElementKids(Root(0)) = <<Handle(calls, 0, 1)>>
  /\ Cardinality(CallHandles) = 2

\* C23: after any sequence of bindEvent calls, every binding stored in the registry has a
\* non-empty name, a non-empty type and a callback.
C23_RegistryEntries ==
  \A k \in 1..Len(EVENTS) :
    /\ objs[EVENTS[k]].name \notin {<<>>, Undefined}
    /\ objs[EVENTS[k]].type \notin {<<>>, Undefined}
    /\ objs[EVENTS[k]].callback # Undefined

(***************************************************************************)
(* Lines of the event-aware class that have a text content and child lines *)
(***************************************************************************)
\* the line with the content (t) after it
WithText(line) == line \o <<"(", "t", ")">>

\* the child lines: a tag at every depth 1..MaxDepth, with and without content
TextChildLines ==
  {DepthLine(d) : d \in 1..MaxDepth} \cup {WithText(DepthLine(d)) : d \in 1..MaxDepth}

\* one main line, with or without content, followed by child lines
TextTemplates ==
  { JoinLines(<<m>> \o ls) :
      m \in {DepthLine(0), WithText(DepthLine(0))},
      ls \in SeqsUpTo(TextChildLines, MaxLines - 1) }

InitText == InitFor("ev", <<>>)

NextText ==
  \/ GenerateCall(TextTemplates, 1)
  \/ BeginGroup
  \/ LoopStep
  \/ AppendMain
  \/ Return

SpecText == InitText /\ [][NextText]_vars

\* the line element h was made from has a content in parentheses
HasContent(h) == \E k \in 1..Len(At(lines, src[h])) : At(lines, src[h])[k] = "("

\* the child list of h is its child elements followed by one text node, the content
TextIsLast(h) ==
  /\ Len(elems[h].kids) = Len(ElementKids(h)) + 1
  /\ elems[h].kids[Len(elems[h].kids)] = TextNode(<<"t">>)
  /\ \A n \in 1..Len(ElementKids(h)) : elems[h].kids[n] = ElNode(ElementKids(h)[n])

\* C24 as stated: when a line has a content and child lines, once its group is assembled
\* the text node is the last child of its element and every child element is placed
\* before the text, in source order.
C24_TextLastSourceOrder ==
  \A h \in CallHandles :
    (LoopEnded(h[2]) /\ HasContent(h) /\ ElementKids(h) # <<>>) =>
      TextIsLast(h) /\ KidsInSourceOrder(h)

\* C24, amended: the same, with the child elements ordered by depth, shallower first, and
\* in source order among those of equal depth (the source order when no level is skipped).
C24_TextLast ==
  \A h \in CallHandles :
    (LoopEnded(h[2]) /\ HasContent(h) /\ ElementKids(h) # <<>>) =>
      TextIsLast(h) /\ KidsByDepthThenSource(h)

\* C24's case: a(t) / >a / >a(t) / >>a has been assembled: the root holds its two child
\* elements and then its text, the second child its own child and then its text.
C24_Witness ==
  /\ Returned
  /\ Len(lines) = 4
  /\ elems[Root(0)].kids =
       <<ElNode(Handle(calls, 0, 1)), ElNode(Handle(calls, 0, 2)), TextNode(<<"t">>)>>
  /\ elems[Handle(calls, 0, 2)].kids = <<ElNode(Handle(calls, 0, 3)), TextNode(<<"t">>)>>

(***************************************************************************)
(* Several calls of generate of the event-aware class, with setParent      *)
(* between them                                                            *)
(***************************************************************************)
\* templates that compile without error: a | a / b | a / >a / b | (blank)
ContainerTemplates ==
  { <<"a">>,
    <<"a", "\n", "b">>,
    <<"a", "\n", ">", "a", "\n", "b">>,
    <<" ">> }

InitContainers == InitFor("ev", <<>>)

NextContainers ==
  \/ GenerateCall(ContainerTemplates, MaxCalls)
  \/ BeginGroup
  \/ LoopStep
  \/ AppendMain
  \/ Return
  \/ setParent

SpecContainers == InitContainers /\ [][NextContainers]_vars

\* the last n entries of a sequence
LastN(q, n) == SubSeq(q, Len(q) - n + 1, Len(q))

\* C25: the children of each container are the concatenation, in call order, of the roots
\* of the generate calls made while it was the current parent: a step of generate only
\* appends the root of the group it has assembled to the current parent, which does not
\* change while generate runs; nothing is ever removed from or reordered in a container;
\* setParent moves no element; and when generate returns, its roots, one per depth-0 line
\* in source order, are the last children of the current parent.
C25_ContainerAccumulation ==
  /\ [][/\ pc # "idle" => parent' = parent
        /\ dom' # dom =>
             /\ pc = "loop"
             /\ dom' = [dom EXCEPT ![parent] = Append(@, Root(i))]
        /\ parent' # parent => (dom' = dom /\ elems' = elems)]_vars
  /\ [](Returned =>
          /\ Len(dom[parent]) >= Cardinality(MainIndices)
          /\ LastN(dom[parent], Cardinality(MainIndices))
               = [n \in 1..Cardinality(MainIndices) |-> Root(n - 1)]
          /\ \A c \in Containers : \A a, b \in 1..Len(dom[c]) :
               a < b => \/ dom[c][a][1] < dom[c][b][1]
                        \/ dom[c][a][1] = dom[c][b][1] /\ dom[c][a][2] < dom[c][b][2]
          /\ \A h \in DOMAIN elems :
               h[3] = 0 =>
                 Cardinality(UNION {{<<c, n>> : n \in {m \in 1..Len(dom[c]) : dom[c][m] = h}} :
                                      c \in Containers}) = 1)

\* C25's case: a first generate put two roots into body, setParent made aside the parent
\* and a second generate put its root there; body still holds its two roots.
C25_Witness ==
  /\ Returned
  /\ calls = 2
  /\ parent = "aside"
  /\ dom["body"] = <<Handle(1, 0, 0), Handle(1, 1, 0)>>
  /\ dom["aside"] = <<Handle(2, 0, 0)>>

====
